---- MODULE Spec2Model ----
(***************************************************************************)
(* Model of src/new.py: a Streamlit script that loads two pickled          *)
(* artifacts through st.cache_resource, gates the page on model_loaded,    *)
(* reads twelve widgets and, when the button is pressed, calls             *)
(* predict_house_price.  One action is one whole script run (Streamlit     *)
(* reruns the script top to bottom for every interaction).                 *)
(*                                                                         *)
(* Numbers are exact rationals [n, d] (d > 0, lowest terms): Python's      *)
(* true division of the form's values is modelled without rounding, so a   *)
(* truncating division is a different value.  Intermediate values are      *)
(* passed as operator parameters rather than LET definitions.              *)
(***************************************************************************)
EXTENDS Integers, Sequences, FiniteSets, TLC

VARIABLES
    files,      \* the two artifact files on disk (environment)
    cache,      \* st.cache_resource entry of load_model_and_scaler
    widgets,    \* the session's widget values
    run,        \* what the last script run did
    runs,       \* number of script runs so far
    loads,      \* number of executions of load_model_and_scaler's body
    observed,   \* the triple line 113 bound in the first run that got one
    history     \* the calls of predict_house_price so far

vars == <<files, cache, widgets, run, runs, loads, observed, history>>

(***************************************************************************)
(* Bounds of the model.                                                    *)
(***************************************************************************)
MaxRuns == 3          \* script runs per behaviour of Spec
MaxCallRuns == 6      \* script runs per behaviour of SpecCalls
MaxSliderStep == 1    \* slider positions 49 + 5k explored, k <= MaxSliderStep
MaxMonth == 2         \* months 1..MaxMonth explored (the form offers 1..12)
MaxZone == 2          \* zones 1..MaxZone explored (the form offers 1..4)

(***************************************************************************)
(* Exact rational arithmetic.                                              *)
(***************************************************************************)
Abs(x) == IF x < 0 THEN -x ELSE x

RECURSIVE GCD(_, _)
GCD(a, b) == IF b = 0 THEN a ELSE GCD(b, a % b)

Rat(n, d) ==
    LET g == GCD(Abs(n), d)
    IN  [n |-> n \div g, d |-> d \div g]

RInt(i) == [n |-> i, d |-> 1]
RAdd(x, y) == Rat(x.n * y.d + y.n * x.d, x.d * y.d)
RMul(x, y) == Rat(x.n * y.n, x.d * y.d)
\* true division, Python's / (the form's values give a positive divisor)
RDiv(x, y) == Rat(x.n * y.d, x.d * y.n)
\* floor division, Python's //
RFloorDiv(x, y) == RInt((x.n * y.d) \div (x.d * y.n))

\* Python's int(flag) for a bool
IntOf(flag) == IF flag THEN 1 ELSE 0

(***************************************************************************)
(* A one-row pandas DataFrame: the ordered list of its columns.            *)
(***************************************************************************)
HasCol(df, name) == \E i \in 1..Len(df) : df[i].col = name

Col(df, name) == df[CHOOSE i \in 1..Len(df) : df[i].col = name].val

\* df[name] = value: replaces the column in place, or appends a new one
SetCol(df, name, value) ==
    IF HasCol(df, name)
    THEN [i \in 1..Len(df) |->
            IF df[i].col = name THEN [col |-> name, val |-> value] ELSE df[i]]
    ELSE Append(df, [col |-> name, val |-> value])

Columns(df) == [i \in 1..Len(df) |-> df[i].col]

(***************************************************************************)
(* The pickled artifacts.  They are opaque objects with transform and      *)
(* predict, modelled as uninterpreted deterministic functions: the result  *)
(* records which artifact was applied to which values, so that two results *)
(* are equal exactly when artifact and input are.  Scaler "A" was fitted   *)
(* on FittedColumns; scaler "X" was fitted on another column order, so its *)
(* transform rejects the row this program builds.                          *)
(***************************************************************************)
ModelArtifacts == {"A", "B"}
ScalerArtifacts == {"A", "X"}

\* the column order scaler "A" was fitted on
FittedColumns ==
    <<"bedrooms", "grade", "has_basement", "living_in_m2", "renovated",
      "nice_view", "perfect_condition", "real_bathrooms", "has_lavatory",
      "single_floor", "month", "quartile_zone", "bathroom_bedroom_ratio",
      "total_rooms", "luxury_score", "quality_index">>

NoValue == [by |-> "None", of |-> <<>>]

\* scaler.transform(input_data): [ok, X]; not ok is a raised exception
ScalerTransform(scalerObj, df) ==
    IF scalerObj = "A" /\ Columns(df) = FittedColumns
    THEN [ok |-> TRUE,
          X  |-> [by |-> scalerObj, of |-> [i \in 1..Len(df) |-> df[i].val]]]
    ELSE [ok |-> FALSE, X |-> NoValue]

\* model.predict(input_scaled): [ok, y], y the list of predictions
ModelPredict(modelObj, X) ==
    IF modelObj \in ModelArtifacts
    THEN [ok |-> TRUE, y |-> <<[by |-> modelObj, of |-> <<X>>]>>]
    ELSE [ok |-> FALSE, y |-> <<>>]

(***************************************************************************)
(* predict_house_price, lines 118-145.                                     *)
(***************************************************************************)
\* lines 122-135: the DataFrame built from the twelve arguments
input_data_raw(bedrooms, grade, has_basement, living_in_m2, renovated, nice_view, perfect_condition, real_bathrooms, has_lavatory, single_floor, month, quartile_zone) ==
    << [col |-> "bedrooms",          val |-> bedrooms],
       [col |-> "grade",             val |-> grade],
       [col |-> "has_basement",      val |-> RInt(IntOf(has_basement))],
       [col |-> "living_in_m2",      val |-> living_in_m2],
       [col |-> "renovated",         val |-> RInt(IntOf(renovated))],
       [col |-> "nice_view",         val |-> RInt(IntOf(nice_view))],
       [col |-> "perfect_condition", val |-> RInt(IntOf(perfect_condition))],
       [col |-> "real_bathrooms",    val |-> real_bathrooms],
       [col |-> "has_lavatory",      val |-> RInt(IntOf(has_lavatory))],
       [col |-> "single_floor",      val |-> RInt(IntOf(single_floor))],
       [col |-> "month",             val |-> month],
       [col |-> "quartile_zone",     val |-> quartile_zone] >>

\* line 137 written with // for /
ratio_floor_division(df) ==
    RFloorDiv(Col(df, "real_bathrooms"), RAdd(Col(df, "bedrooms"), RInt(1)))

\* line 137, right-hand side
bathroom_bedroom_ratio(df) ==
    RDiv(Col(df, "real_bathrooms"), RAdd(Col(df, "bedrooms"), RInt(1)))

\* line 138 reading has_lavatory for real_bathrooms
total_rooms_with_lavatory(df) ==
    RAdd(Col(df, "bedrooms"), Col(df, "has_lavatory"))

\* line 138, right-hand side
total_rooms(df) == RAdd(Col(df, "bedrooms"), Col(df, "real_bathrooms"))

\* line 139 written with // for /
luxury_score_truncated(df) ==
    RFloorDiv(RMul(Col(df, "grade"), Col(df, "living_in_m2")), RInt(100))

\* line 139, right-hand side
luxury_score(df) ==
    RDiv(RMul(Col(df, "grade"), Col(df, "living_in_m2")), RInt(100))

\* line 140 without its parentheses
quality_index_unparenthesised(df) ==
    RAdd(RMul(Col(df, "grade"), Col(df, "perfect_condition")), RInt(1))

\* line 140, right-hand side
quality_index(df) ==
    RMul(Col(df, "grade"), RAdd(Col(df, "perfect_condition"), RInt(1)))

\* lines 137-140, each assignment on the frame the previous one left
line_137(df) == SetCol(df, "bathroom_bedroom_ratio", bathroom_bedroom_ratio(df))
line_138(df) == SetCol(df, "total_rooms", total_rooms(df))
line_139(df) == SetCol(df, "luxury_score", luxury_score(df))
line_140(df) == SetCol(df, "quality_index", quality_index(df))

add_derived(df) == line_140(line_139(line_138(line_137(df))))

\* what a call hands back.  raised: an exception left the function;
\* transformed: the frame given to scaler.transform
Raised(input_data, n_predict) ==
    [raised |-> TRUE, prediction |-> NoValue, input_data |-> <<>>,
     transformed |-> input_data, predict_calls |-> n_predict]

\* lines 143-145, given model.predict's result
line_145(input_data, predicted) ==
    IF predicted.ok
    THEN [raised |-> FALSE, prediction |-> predicted.y[1],
          input_data |-> input_data, transformed |-> input_data,
          predict_calls |-> 1]
    ELSE Raised(input_data, 1)

\* lines 142-143, given scaler.transform's result
line_143(input_data, input_scaled, modelObj) ==
    IF input_scaled.ok
    THEN line_145(input_data, ModelPredict(modelObj, input_scaled.X))
    ELSE Raised(input_data, 0)

\* line 142
line_142(input_data, modelObj, scalerObj) ==
    line_143(input_data, ScalerTransform(scalerObj, input_data), modelObj)

\* lines 118-145, with the globals model and scaler as parameters
predict_house_price(bedrooms, grade, has_basement, living_in_m2, renovated, nice_view, perfect_condition, real_bathrooms, has_lavatory, single_floor, month, quartile_zone, modelObj, scalerObj) ==
    line_142(add_derived(input_data_raw(bedrooms, grade, has_basement,
                living_in_m2, renovated, nice_view, perfect_condition,
                real_bathrooms, has_lavatory, single_floor, month,
                quartile_zone)),
             modelObj, scalerObj)

(***************************************************************************)
(* load_model_and_scaler, lines 102-113.                                   *)
(***************************************************************************)
\* a file is missing, unreadable (present, but open or pickle.load fails
\* with something other than FileNotFoundError), or holds an artifact
FileStates(artifacts) ==
    {[st |-> "missing", obj |-> "None"], [st |-> "unreadable", obj |-> "None"]}
        \cup {[st |-> "ok", obj |-> a] : a \in artifacts}

NotLoaded(raised) ==
    [raised |-> raised, model |-> "None", scaler |-> "None", loaded |-> FALSE]

\* lines 104-111: the model file is opened first; FileNotFoundError is the
\* only exception caught, any other leaves the function
load_body(fs) ==
    IF fs.model.st = "missing" THEN NotLoaded(FALSE)
    ELSE IF fs.model.st = "unreadable" THEN NotLoaded(TRUE)
    ELSE IF fs.scaler.st = "missing" THEN NotLoaded(FALSE)
    ELSE IF fs.scaler.st = "unreadable" THEN NotLoaded(TRUE)
    ELSE [raised |-> FALSE, model |-> fs.model.obj, scaler |-> fs.scaler.obj,
          loaded |-> TRUE]

EmptyCache == [filled |-> FALSE, model |-> "None", scaler |-> "None", loaded |-> FALSE]

\* what st.cache_resource does with the body's result r: a returned value
\* is stored, an exception stores nothing
store_result(c, r) ==
    [raised |-> r.raised, model |-> r.model, scaler |-> r.scaler,
     loaded |-> r.loaded, body_ran |-> TRUE,
     cache |-> IF r.raised THEN c
               ELSE [filled |-> TRUE, model |-> r.model,
                     scaler |-> r.scaler, loaded |-> r.loaded]]

\* line 103 without the decorator of line 102
load_undecorated(c, fs) == store_result(c, load_body(fs))

\* line 102, st.cache_resource: a filled entry is returned without running
\* the body
load_model_and_scaler(c, fs) ==
    IF c.filled
    THEN [raised |-> FALSE, model |-> c.model, scaler |-> c.scaler,
          loaded |-> c.loaded, body_ran |-> FALSE, cache |-> c]
    ELSE store_result(c, load_body(fs))

(***************************************************************************)
(* The widgets, lines 167-194 and 202.                                     *)
(***************************************************************************)
WidgetNames ==
    {"bedrooms", "real_bathrooms", "living_in_m2", "grade", "quartile_zone",
     "has_basement", "renovated", "nice_view", "perfect_condition",
     "has_lavatory", "single_floor", "month"}

\* the values a user can give each widget (within the bounds)
WidgetValues(w) ==
    CASE w = "bedrooms"       -> {RInt(i) : i \in {1, 2, 3}}
      [] w = "real_bathrooms" -> {RInt(i) : i \in {1, 2, 3}}
      [] w = "living_in_m2"   -> {RInt(49 + 5 * k) : k \in 0..MaxSliderStep}
                                    \cup {RInt(180)}
      [] w = "grade"          -> {RInt(i) : i \in {1, 2, 3, 4, 5}}
      [] w = "quartile_zone"  -> {RInt(i) : i \in 1..MaxZone}
      [] w = "month"          -> {RInt(i) : i \in 1..MaxMonth}
      [] OTHER                -> BOOLEAN

\* the values the widgets have in a new session
DefaultWidgets ==
    [bedrooms |-> RInt(2), real_bathrooms |-> RInt(2),
     living_in_m2 |-> RInt(180), grade |-> RInt(3), quartile_zone |-> RInt(2),
     has_basement |-> FALSE, renovated |-> FALSE, nice_view |-> FALSE,
     perfect_condition |-> FALSE, has_lavatory |-> FALSE,
     single_floor |-> FALSE, month |-> RInt(1)]

(***************************************************************************)
(* One run of the script, lines 113-230.                                   *)
(***************************************************************************)
NoRun ==
    [outcome |-> "none", model_loaded |-> "unset", model |-> "unset",
     scaler |-> "unset", shown |-> {}, widgets_built |-> FALSE,
     predict |-> FALSE, predictor_calls |-> 0, transform_calls |-> 0,
     predict_calls |-> 0, transformed |-> <<>>, input_df |-> <<>>,
     predicted_price |-> NoValue,
     body_ran |-> FALSE, body_raised |-> FALSE,
     model_file |-> "none", scaler_file |-> "none"]

\* lines 207-211 with renovated and nice_view in each other's place
call_predict_swapped(w, modelObj, scalerObj) ==
    predict_house_price(w.bedrooms, w.grade, w.has_basement, w.living_in_m2,
        w.nice_view, w.renovated, w.perfect_condition, w.real_bathrooms,
        w.has_lavatory, w.single_floor, w.month, w.quartile_zone,
        modelObj, scalerObj)

\* lines 207-211: the call, its arguments in the order written there
call_predict(w, modelObj, scalerObj) ==
    predict_house_price(w.bedrooms, w.grade, w.has_basement, w.living_in_m2,
        w.renovated, w.nice_view, w.perfect_condition, w.real_bathrooms,
        w.has_lavatory, w.single_floor, w.month, w.quartile_zone,
        modelObj, scalerObj)

\* lines 213-227, given what the call at line 207 did
after_call(sofar, r) ==
    IF r.raised
    THEN [sofar EXCEPT !.outcome = "predict_exception",
                       !.predictor_calls = 1, !.transform_calls = 1,
                       !.predict_calls = r.predict_calls,
                       !.transformed = r.transformed]
    ELSE [sofar EXCEPT !.outcome = "price", !.shown = {"success", "price"},
                       !.predictor_calls = 1, !.transform_calls = 1,
                       !.predict_calls = r.predict_calls,
                       !.transformed = r.transformed,
                       !.input_df = r.input_data,
                       !.predicted_price = r.prediction]

\* lines 206 and 229: the branch on the button's value
takes_predict_branch(predict) == predict

\* lines 164-230: the widgets are drawn, then the branch on predict
main_area(sofar, w, pressed) ==
    IF takes_predict_branch(pressed)
    THEN after_call([sofar EXCEPT !.widgets_built = TRUE, !.predict = pressed],
                    call_predict(w, sofar.model, sofar.scaler))
    ELSE [sofar EXCEPT !.widgets_built = TRUE, !.predict = pressed,
                       !.outcome = "prompt", !.shown = {"info"}]

\* lines 157-159 left out
halts_never(loaded) == FALSE

\* lines 157-159: the run stops here when this holds
halts_on(loaded) == ~loaded

\* lines 157-230
from_check(sofar, loaded, w, pressed) ==
    IF halts_on(loaded)
    THEN [sofar EXCEPT !.outcome = "halted", !.shown = {"error"}]
    ELSE main_area(sofar, w, pressed)

\* line 113: an exception ends the run, else the three globals are bound
from_load(sofar, ld, w, pressed) ==
    IF ld.raised
    THEN [sofar EXCEPT !.outcome = "load_exception"]
    ELSE from_check([sofar EXCEPT
                        !.model_loaded = IF ld.loaded THEN "true" ELSE "false",
                        !.model = ld.model, !.scaler = ld.scaler],
                    ld.loaded, w, pressed)

\* the run's record, given what line 113 returned, the files it may have
\* read, the session's widget values and whether this run was started by a
\* press of the button
script_run(ld, fs, w, pressed) ==
    from_load([NoRun EXCEPT
                  !.body_ran = ld.body_ran,
                  !.body_raised = ld.body_ran /\ ld.raised,
                  !.model_file = IF ld.body_ran THEN fs.model.st ELSE "none",
                  !.scaler_file = IF ld.body_ran THEN fs.scaler.st ELSE "none"],
              ld, w, pressed)

\* the calls of predict_house_price a run adds to the history
CallsOf(r, w) ==
    IF r.predictor_calls = 1
    THEN <<[args |-> w, model |-> r.model, scaler |-> r.scaler,
            raised |-> r.outcome = "predict_exception",
            input_df |-> r.input_df, predicted_price |-> r.predicted_price]>>
    ELSE <<>>

NoTriple == [seen |-> FALSE, model |-> "None", scaler |-> "None", loaded |-> FALSE]

\* a whole script run in a session whose widgets hold w
Run(w, pressed) ==
    \E ld \in {load_model_and_scaler(cache, files)} :
        /\ runs' = runs + 1
        /\ cache' = ld.cache
        /\ loads' = IF ld.body_ran THEN loads + 1 ELSE loads
        /\ widgets' = w
        /\ run' = script_run(ld, files, w, pressed)
        /\ observed' = IF observed.seen \/ ld.raised THEN observed
                       ELSE [seen |-> TRUE, model |-> ld.model,
                             scaler |-> ld.scaler, loaded |-> ld.loaded]
        /\ history' = history \o CallsOf(run', w)
        /\ UNCHANGED files

(***************************************************************************)
(* What starts a run.                                                      *)
(***************************************************************************)
\* a browser opens the page: a new session, every widget at its default
NewSession == runs < MaxRuns /\ Run(DefaultWidgets, FALSE)

\* the session reruns the script as it is (the page's Rerun command)
Rerun == runs > 0 /\ runs < MaxRuns /\ Run(widgets, FALSE)

\* the user gives widget w, which the last run drew, another value
Change(w) ==
    /\ run.widgets_built
    /\ \E v \in WidgetValues(w) :
          v # widgets[w] /\ Run([widgets EXCEPT ![w] = v], FALSE)

SetWidget == runs < MaxRuns /\ \E w \in WidgetNames : Change(w)

\* the user presses the button, which the last run drew
Press == run.widgets_built /\ Run(widgets, TRUE)

ClickPredict == runs < MaxRuns /\ Press

\* the environment: somebody replaces, removes or protects an artifact file
ChangeFile ==
    /\ \/ \E f \in FileStates(ModelArtifacts) :
             f # files.model /\ files' = [files EXCEPT !.model = f]
       \/ \E f \in FileStates(ScalerArtifacts) :
             f # files.scaler /\ files' = [files EXCEPT !.scaler = f]
    /\ UNCHANGED <<cache, widgets, run, runs, loads, observed, history>>

Init ==
    /\ files \in [model : FileStates(ModelArtifacts),
                  scaler : FileStates(ScalerArtifacts)]
    /\ cache = EmptyCache
    /\ widgets = DefaultWidgets
    /\ run = NoRun
    /\ runs = 0
    /\ loads = 0
    /\ observed = NoTriple
    /\ history = <<>>

Next == NewSession \/ Rerun \/ SetWidget \/ ClickPredict \/ ChangeFile

Spec == Init /\ [][Next]_vars

(***************************************************************************)
(* predict_house_price over the form's inputs: the process has loaded its  *)
(* artifacts, a session holds any combination of widget values, and the    *)
(* button is pressed once.                                                 *)
(***************************************************************************)
\* the state a session is in after the first run, which loaded fs (through
\* line 113's result ld) and drew the widgets with values w
AfterFirstRun(fs, ld, w) ==
    /\ files = fs
    /\ cache = ld.cache
    /\ widgets = w
    /\ run = script_run(ld, fs, w, FALSE)
    /\ runs = 1
    /\ loads = 1
    /\ observed = [seen |-> TRUE, model |-> ld.model,
                   scaler |-> ld.scaler, loaded |-> ld.loaded]
    /\ history = <<>>

Loaded(fs, w) == AfterFirstRun(fs, load_model_and_scaler(EmptyCache, fs), w)

OkFiles ==
    [model : {[st |-> "ok", obj |-> a] : a \in ModelArtifacts},
     scaler : {[st |-> "ok", obj |-> a] : a \in ScalerArtifacts}]

\* every combination of widget values (within the bounds)
WidgetStates ==
    [bedrooms : WidgetValues("bedrooms"),
     real_bathrooms : WidgetValues("real_bathrooms"),
     living_in_m2 : WidgetValues("living_in_m2"),
     grade : WidgetValues("grade"),
     quartile_zone : WidgetValues("quartile_zone"),
     has_basement : BOOLEAN, renovated : BOOLEAN, nice_view : BOOLEAN,
     perfect_condition : BOOLEAN, has_lavatory : BOOLEAN,
     single_floor : BOOLEAN,
     month : WidgetValues("month")]

InitPredict ==
    \E fs \in OkFiles : \E w \in WidgetStates :
        fs.model.obj = "A" /\ fs.scaler.obj = "A" /\ Loaded(fs, w)

PressOnce == history = <<>> /\ Press

NextPredict == PressOnce

SpecPredict == InitPredict /\ [][NextPredict]_vars

(***************************************************************************)
(* Repeated calls of predict_house_price against one process's cache: a    *)
(* session changes two of its widgets and presses the button, in any       *)
(* order, while the files on disk may change.                              *)
(***************************************************************************)
InitCalls == \E fs \in OkFiles : Loaded(fs, DefaultWidgets)

ChangeSome ==
    runs < MaxCallRuns /\ \E w \in {"bedrooms", "perfect_condition"} : Change(w)

PressAgain == runs < MaxCallRuns /\ Press

NextCalls == ChangeSome \/ PressAgain \/ ChangeFile

SpecCalls == InitCalls /\ [][NextCalls]_vars

(***************************************************************************)
(* The properties.                                                         *)
(***************************************************************************)
NoCalls ==
    run.predictor_calls = 0 /\ run.transform_calls = 0 /\ run.predict_calls = 0

\* C1: a run in which line 113 bound model_loaded = False shows the error
\* and stops before any widget is drawn, and calls neither
\* predict_house_price nor scaler.transform nor model.predict; a run that
\* calls predict_house_price has model_loaded = True and holds a model and a
\* scaler that are artifacts, not None.
C1_NoPredictionWithoutArtifacts ==
    /\ run.model_loaded = "false" =>
          /\ run.outcome = "halted"
          /\ run.shown = {"error"}
          /\ ~run.widgets_built
          /\ NoCalls
    /\ run.predictor_calls > 0 =>
          /\ run.model_loaded = "true"
          /\ run.model \in ModelArtifacts
          /\ run.scaler \in ScalerArtifacts
    /\ \A i \in 1..Len(history) :
          history[i].model \in ModelArtifacts /\ history[i].scaler \in ScalerArtifacts

C1_Witness ==
    run.model_loaded = "false" /\ run.outcome = "halted" /\ runs = MaxRuns

\* C2: whenever the body of load_model_and_scaler runs it returns rather
\* than raises; with either file missing or unreadable it returns
\* (None, None, False); it returns loaded = True only with both files read.
C2_LoaderReturnsInsteadOfRaising ==
    run.body_ran =>
        /\ ~run.body_raised
        /\ (run.model_file # "ok" \/ run.scaler_file # "ok") =>
              /\ run.model_loaded = "false"
              /\ run.model = "None"
              /\ run.scaler = "None"
        /\ run.model_loaded = "true" =>
              run.model_file = "ok" /\ run.scaler_file = "ok"

\* C3: the body of load_model_and_scaler runs at most once in the process,
\* and every run that binds the triple binds the one the first such run
\* bound, whatever has happened to the files since.
C3_ReadOnceAndNeverReloaded ==
    /\ loads <= 1
    /\ run.model_loaded # "unset" =>
          /\ observed.seen
          /\ run.model = observed.model
          /\ run.scaler = observed.scaler
          /\ (run.model_loaded = "true") = observed.loaded

\* C4: every run ends in exactly one of: the halting error (model_loaded
\* False), the price (model_loaded True, button pressed, one call of
\* predict_house_price), the prompt (model_loaded True, button not pressed,
\* no call).
C4_ThreeOutcomes ==
    run.outcome # "none" =>
        \/ /\ run.model_loaded = "false"
           /\ run.outcome = "halted" /\ run.shown = {"error"}
           /\ run.predictor_calls = 0
        \/ /\ run.model_loaded = "true" /\ run.predict
           /\ run.outcome = "price" /\ run.shown = {"success", "price"}
           /\ run.predictor_calls = 1
        \/ /\ run.model_loaded = "true" /\ ~run.predict
           /\ run.outcome = "prompt" /\ run.shown = {"info"}
           /\ run.predictor_calls = 0

\* the value of a column of the frame given to scaler.transform
Feature(name) == Col(run.transformed, name)

\* C5: the frame given to scaler.transform, which is also the one returned,
\* has these sixteen columns in this order, and each raw column holds the
\* value of the widget of the same name, a checkbox as 0 or 1.
C5_ColumnsInOrder ==
    run.predictor_calls = 1 =>
        /\ Columns(run.transformed) =
              <<"bedrooms", "grade", "has_basement", "living_in_m2",
                "renovated", "nice_view", "perfect_condition",
                "real_bathrooms", "has_lavatory", "single_floor", "month",
                "quartile_zone", "bathroom_bedroom_ratio", "total_rooms",
                "luxury_score", "quality_index">>
        /\ \A name \in {"bedrooms", "grade", "living_in_m2", "real_bathrooms",
                        "month", "quartile_zone"} :
              Feature(name) = widgets[name]
        /\ \A name \in {"has_basement", "renovated", "nice_view",
                        "perfect_condition", "has_lavatory", "single_floor"} :
              Feature(name) = [n |-> IF widgets[name] THEN 1 ELSE 0, d |-> 1]
        /\ run.outcome = "price" => run.input_df = run.transformed

C5_Witness ==
    /\ run.outcome = "price"
    /\ widgets.renovated /\ ~widgets.nice_view /\ widgets.single_floor
    /\ widgets.bedrooms.n = 1 /\ widgets.real_bathrooms.n = 3
    /\ widgets.month.n = MaxMonth /\ widgets.quartile_zone.n = 1
    /\ Len(run.input_df) = 16

\* C6: a call of predict_house_price with the arguments of an earlier call
\* returns (or raises) what that call did, whatever was called in between,
\* and a run that makes a call leaves the cache, the files and the widget
\* values as they were and does not run the loader's body.
C6_SameInputsSameResult ==
    [][Len(history') > Len(history) =>
          /\ cache' = cache
          /\ files' = files
          /\ widgets' = widgets
          /\ loads' = loads
          /\ observed' = observed
          /\ SubSeq(history', 1, Len(history)) = history
          /\ \A i \in 1..Len(history) :
                history[i].args = history'[Len(history')].args =>
                    /\ history[i].raised = history'[Len(history')].raised
                    /\ history[i].predicted_price = history'[Len(history')].predicted_price
                    /\ history[i].input_df = history'[Len(history')].input_df]_vars

C6_Witness ==
    /\ Len(history) >= 3
    /\ history[1].args = history[3].args
    /\ history[2].args # history[1].args
    /\ ~history[3].raised
    /\ files.model.obj # cache.model

\* C7: bathroom_bedroom_ratio is real_bathrooms / (bedrooms + 1) as an
\* exact quotient, and the divisor is not zero.
C7_RatioIsTrueDivision ==
    run.predictor_calls = 1 =>
        /\ widgets.bedrooms.n + 1 # 0
        /\ Feature("bathroom_bedroom_ratio").d > 0
        /\ Feature("bathroom_bedroom_ratio").n * (widgets.bedrooms.n + 1)
              = widgets.real_bathrooms.n * Feature("bathroom_bedroom_ratio").d

C7_Witness ==
    /\ run.outcome = "price"
    /\ widgets.bedrooms.n = 2 /\ widgets.real_bathrooms.n = 2
    /\ Feature("bathroom_bedroom_ratio") = [n |-> 2, d |-> 3]

\* C8: quality_index is grade when perfect_condition is unchecked and
\* twice grade when it is checked.
C8_QualityIndex ==
    run.predictor_calls = 1 =>
        Feature("quality_index") =
            [n |-> IF widgets.perfect_condition THEN 2 * widgets.grade.n
                                                ELSE widgets.grade.n,
             d |-> 1]

C8_Witness ==
    /\ run.outcome = "price"
    /\ widgets.perfect_condition /\ widgets.grade.n = 4
    /\ widgets.has_basement /\ widgets.real_bathrooms.n = 3
    /\ Feature("quality_index") = [n |-> 8, d |-> 1]

\* C9: luxury_score is grade * living_in_m2 / 100 as an exact quotient.
C9_LuxuryScore ==
    run.predictor_calls = 1 =>
        /\ Feature("luxury_score").d > 0
        /\ Feature("luxury_score").n * 100 * widgets.living_in_m2.d
              = widgets.grade.n * widgets.living_in_m2.n * Feature("luxury_score").d

C9_Witness ==
    /\ run.outcome = "price"
    /\ widgets.grade.n = 3 /\ widgets.living_in_m2 = [n |-> 180, d |-> 1]
    /\ Feature("luxury_score") = [n |-> 27, d |-> 5]

\* C10: total_rooms is the integer bedrooms + real_bathrooms, between 2
\* and 6.
C10_TotalRooms ==
    run.predictor_calls = 1 =>
        /\ Feature("total_rooms") =
              [n |-> widgets.bedrooms.n + widgets.real_bathrooms.n, d |-> 1]
        /\ Feature("total_rooms").n \in 2..6

C10_Witness ==
    /\ run.outcome = "price"
    /\ widgets.bedrooms.n = 3 /\ widgets.real_bathrooms.n = 1
    /\ widgets.has_lavatory
    /\ Feature("total_rooms") = [n |-> 4, d |-> 1]

====
